---- MODULE Spec2Model ----
(***************************************************************************)
(* Model of recipes/cad1/task1/baseline/evaluate.py: the HAAQI evaluation  *)
(* driver run_calculate_aq, its results file (ResultsFile), the pair       *)
(* enumeration (make_song_listener_list), the per-song seeding             *)
(* (set_song_seed) and the metric adapter (compute_haaqi).                 *)
(*                                                                         *)
(* Three specifications share the variables:                               *)
(*   Spec       one run of run_calculate_aq, step by step;                 *)
(*   SpecPairs  make_song_listener_list applied to bounded inputs;         *)
(*   SpecHaaqi  compute_haaqi applied to bounded audiograms.               *)
(***************************************************************************)
EXTENDS Integers, Sequences, FiniteSets, TLC

VARIABLES
    pc,                     \* position of run_calculate_aq
    songs,                  \* the catalog: sequence of [name, split] rows
    listeners,              \* keys of listener_audiograms, in key order
    cfg,                    \* [small_test, set_random_seed, fs]
    file,                   \* scores.csv: a sequence of rows (sequences of fields)
    song_listener_pair,     \* the enumerated work list
    idx,                    \* 0-based position of the current pair
    instr_i,                \* position in the instrument list (1..4)
    scores,                 \* the dict `scores` of the current pair
    combined_score,         \* result of np.mean for the current pair
    reference_signal,       \* (rate, data) read from the reference stem
    left_enhanced_signal,   \* (rate, data) read from the left enhanced file
    right_enhanced_signal,  \* (rate, data) read from the right enhanced file
    np_seed,                \* the process-wide numpy seed
    err,                    \* the exception that ended the run, or "none"
    log,                    \* history: the loads, seeding, metric calls and write
                            \* of the current iteration of the pair loop
    seeded,                 \* history: every np.random.seed call of the run
    written,                \* history: every add_result call that returned
    call_args,              \* SpecPairs / SpecHaaqi: arguments of the call
    call_result             \* SpecPairs / SpecHaaqi: what the call returned

vars == <<pc, songs, listeners, cfg, file, song_listener_pair, idx, instr_i,
          scores, combined_score, reference_signal, left_enhanced_signal,
          right_enhanced_signal, np_seed, err, log, seeded, written,
          call_args, call_result>>

runVars == <<pc, songs, listeners, cfg, file, song_listener_pair, idx, instr_i,
             scores, combined_score, reference_signal, left_enhanced_signal,
             right_enhanced_signal, np_seed, err, log, seeded, written>>

callVars == <<call_args, call_result>>

histVars == <<seeded, written>>

(***************************************************************************)
(* Bounds of the model.                                                    *)
(***************************************************************************)
\* longest catalog of a modelled run
MaxSongs == 2
\* most listeners of a modelled run
MaxListeners == 2
\* longest song list handed to make_song_listener_list in SpecPairs
MaxListSongs == 11
\* most distinct song names in a SpecPairs song list
MaxListNames == 3
\* longest frequency sequence handed to compute_haaqi in SpecHaaqi
MaxCfs == 3

(***************************************************************************)
(* Program constants.                                                      *)
(***************************************************************************)
\* song_listener_pairs[::15]
SmallTestStride == 15
\* int(song_encoded, 16) % (10**8)
SeedModulus == 100000000
\* base of int(song_encoded, 16)
HexBase == 16

\* the header row written by write_header
Header ==
    <<"song", "listener", "score", "left_bass", "right_bass", "left_drums",
      "right_drums", "left_other", "right_other", "left_vocals", "right_vocals">>

\* the instruments taken in alphabetical order
Instruments_alphabetical == <<"bass", "drums", "other", "vocals">>

\* for instrument in ["drums", "bass", "other", "vocals"]
Instruments == <<"drums", "bass", "other", "vocals">>

\* haaqi_audiogram_freq
haaqi_audiogram_freq == <<250, 500, 1000, 2000, 4000, 6000>>

(***************************************************************************)
(* Inputs: the catalogs, listeners and files a run is started on.          *)
(***************************************************************************)
\* rows of the song catalog ("Track Name", "Split")
CatalogRows ==
    { [name |-> "song1", split |-> "train"], [name |-> "song2", split |-> "test"] }

\* listener identifiers of the listener catalog
ListenerPool == <<"L1", "L2", "L3">>

ListenerIds == { ListenerPool[i] : i \in 1..Len(ListenerPool) }

\* the listener catalog: L2's frequency list lacks 6000 Hz
listener_audiograms(l) ==
    CASE l = "L2" ->
           [audiogram_cfs |-> <<250, 500, 1000, 2000, 4000, 8000>>,
            audiogram_levels_l |-> <<10, 15, 20, 25, 30, 35>>,
            audiogram_levels_r |-> <<12, 17, 22, 27, 32, 37>>]
      [] l = "L3" ->
           [audiogram_cfs |-> <<250, 500, 1000, 2000, 4000, 6000>>,
            audiogram_levels_l |-> <<20, 20, 30, 40, 50, 60>>,
            audiogram_levels_r |-> <<25, 25, 35, 45, 55, 65>>]
      [] OTHER ->
           [audiogram_cfs |-> <<125, 250, 500, 1000, 2000, 4000, 6000, 8000>>,
            audiogram_levels_l |-> <<5, 10, 15, 20, 25, 30, 35, 40>>,
            audiogram_levels_r |-> <<45, 50, 55, 60, 65, 70, 75, 80>>]

\* cfg.nalr.fs of the modelled runs
ConfiguredFs == 44100

\* sample rates a wav file may carry
Rates == {ConfiguredFs, 48000}

\* song names of the lists handed to make_song_listener_list in SpecPairs
SongNames == <<"song1", "song2", "song3", "song4", "song5">>

\* a song list of n entries over the first m names: names repeat when m < n
CyclicSongs(n, m) == [i \in 1..n |-> SongNames[((i - 1) % m) + 1]]

\* audiogram frequencies and loss levels of the audiograms handed to
\* compute_haaqi in SpecHaaqi
FreqPool == {125, 250, 500, 1000, 2000, 4000, 6000, 8000}

LevelPool == {10, 20}

\* what scores.csv may hold before the run
PriorFiles == { <<>>, <<Header, <<"old", "row">>>> }

SeqsUpTo(S, n) == UNION { [1..k -> S] : k \in 0..n }

IsInjective(s) == \A i, j \in 1..Len(s) : s[i] = s[j] => i = j

\* key orders of a listener mapping: keys of a dict are distinct
KeyOrders(n) == { s \in SeqsUpTo(ListenerIds, n) : IsInjective(s) }

(***************************************************************************)
(* make_song_listener_list                                                 *)
(***************************************************************************)
\* the product with the loops exchanged: the outer loop runs over the listeners
RECURSIVE Product_listenerMajor(_, _)
Product_listenerMajor(ss, keys) ==
    IF keys = <<>> THEN <<>>
    ELSE [j \in 1..Len(ss) |-> <<ss[j], Head(keys)>>] \o Product_listenerMajor(ss, Tail(keys))

\* itertools.product(songs, keys): the outer loop runs over songs
RECURSIVE Product(_, _)
Product(ss, keys) ==
    IF ss = <<>> THEN <<>>
    ELSE [j \in 1..Len(keys) |-> <<Head(ss), keys[j]>>] \o Product(Tail(ss), keys)

\* seq[step - 1::step]: every step-th element counted from one (the 15th, the 30th, ...)
RECURSIVE Slice_fromStride(_, _)
Slice_fromStride(seq, step) ==
    IF Len(seq) < step THEN <<>>
    ELSE <<seq[step]>> \o Slice_fromStride(SubSeq(seq, step + 1, Len(seq)), step)

\* seq[::step]
RECURSIVE Slice(_, _)
Slice(seq, step) ==
    IF seq = <<>> THEN <<>>
    ELSE <<Head(seq)>> \o Slice(SubSeq(seq, step + 1, Len(seq)), step)

make_song_listener_list(ss, keys, small_test) ==
    LET song_listener_pairs == Product(ss, keys)
    IN  IF small_test THEN Slice(song_listener_pairs, SmallTestStride)
        ELSE song_listener_pairs

(***************************************************************************)
(* set_song_seed                                                           *)
(***************************************************************************)
\* hashlib.md5(song.encode("utf-8")).hexdigest(), as its 32 hex digits
md5_hexdigest(song) ==
    CASE song = "song1" ->
           <<10,2,11,0,0,14,8,8,6,8,2,15,4,9,14,1,7,14,1,6,15,10,12,6,8,14,13,8,14,7,6,9>>
      [] song = "song2" ->
           <<13,9,9,1,2,2,14,8,6,8,9,10,3,5,6,0,4,3,11,5,10,10,8,15,8,1,10,10,6,8,6,10>>
      [] OTHER ->
           <<5,3,11,0,12,15,7,1,15,11,7,12,9,13,0,12,4,5,3,11,14,5,11,4,1,13,6,12,3,13,13,15>>

\* int(digits, 16) % (10**8), reduced digit by digit
RECURSIVE HexMod(_, _)
HexMod(digits, acc) ==
    IF digits = <<>> THEN acc
    ELSE HexMod(Tail(digits), (acc * HexBase + Head(digits)) % SeedModulus)

\* the seed made to depend on the position of the pair in the enumeration
song_md5_withPosition(song) == (HexMod(md5_hexdigest(song), 0) + idx) % SeedModulus

\* song_md5 of every track name a run can meet
SeedOfName ==
    [song \in {"song1", "song2", "song3"} |-> HexMod(md5_hexdigest(song), 0)]

song_md5(song) == SeedOfName[song]

(***************************************************************************)
(* compute_haaqi                                                           *)
(***************************************************************************)
InSeq(x, s) == \E i \in 1..Len(s) : s[i] = x

\* [audiogram[i] for i in range(len(audiogram_frequencies))
\*  if audiogram_frequencies[i] in haaqi_audiogram_freq]
RECURSIVE AdjustFrom(_, _, _)
AdjustFrom(audiogram, audiogram_frequencies, i) ==
    IF i > Len(audiogram_frequencies) THEN <<>>
    ELSE (IF InSeq(audiogram_frequencies[i], haaqi_audiogram_freq)
          THEN <<audiogram[i]>> ELSE <<>>)
         \o AdjustFrom(audiogram, audiogram_frequencies, i + 1)

\* the filter run over the canonical frequencies instead of the listener's own:
\* [audiogram[index of f] for f in haaqi_audiogram_freq if f in audiogram_frequencies]
RECURSIVE AdjustCanonical(_, _, _)
AdjustCanonical(audiogram, audiogram_frequencies, c) ==
    IF c > Len(haaqi_audiogram_freq) THEN <<>>
    ELSE (IF InSeq(haaqi_audiogram_freq[c], audiogram_frequencies)
          THEN <<audiogram[CHOOSE i \in 1..Len(audiogram_frequencies) :
                               /\ audiogram_frequencies[i] = haaqi_audiogram_freq[c]
                               /\ \A j \in 1..(i - 1) :
                                      audiogram_frequencies[j] # haaqi_audiogram_freq[c]]>>
          ELSE <<>>)
         \o AdjustCanonical(audiogram, audiogram_frequencies, c + 1)

audiogram_adjusted_canonicalOrder(audiogram, audiogram_frequencies) ==
    AdjustCanonical(audiogram, audiogram_frequencies, 1)

audiogram_adjusted(audiogram, audiogram_frequencies) ==
    AdjustFrom(audiogram, audiogram_frequencies, 1)

\* the external metric clarity.evaluator.haaqi.haaqi_v1: a pure function of its
\* arguments (its code is not part of the evaluated file). The modelled score
\* tells apart the instrument, the ear and the listener of the processed signal
\* and the length of the hearing-loss vector.
InstrumentNo(instrument) == CHOOSE i \in 1..Len(Instruments) : Instruments[i] = instrument

ListenerNo(l) == CHOOSE i \in 1..Len(ListenerPool) : ListenerPool[i] = l

haaqi_v1(reference, reference_freq, processed, processed_freq, hearing_loss, equalisation) ==
    100 * ListenerNo(processed.path.listener)
    + 10 * InstrumentNo(processed.path.instrument)
    + (IF processed.path.channel = "left" THEN 0 ELSE 5)
    + (IF reference.col = 0 THEN 0 ELSE 2)
    + (IF Len(hearing_loss) = Len(haaqi_audiogram_freq) THEN 0 ELSE 1)

\* the keyword arguments compute_haaqi hands to haaqi_v1
haaqi_call(enh_signal, ref_signal, audiogram, audiogram_frequencies, fs_signal) ==
    [reference |-> ref_signal, reference_freq |-> fs_signal,
     processed |-> enh_signal, processed_freq |-> fs_signal,
     hearing_loss |-> audiogram_adjusted(audiogram, audiogram_frequencies),
     equalisation |-> 1]

compute_haaqi(enh_signal, ref_signal, audiogram, audiogram_frequencies, fs_signal) ==
    LET c == haaqi_call(enh_signal, ref_signal, audiogram, audiogram_frequencies, fs_signal)
    IN  haaqi_v1(c.reference, c.reference_freq, c.processed, c.processed_freq,
                 c.hearing_loss, c.equalisation)

(***************************************************************************)
(* ResultsFile                                                             *)
(***************************************************************************)
\* str(x) of a number
Str(x) == ToString(x)

\* the columns add_result reads from instruments_scores, in the order written
ScoreColumns ==
    <<"left_bass", "right_bass", "left_drums", "right_drums",
      "left_other", "right_other", "left_vocals", "right_vocals">>

\* the row with the first two columns exchanged (listener under "song")
ResultRow_swapped(listener, song, score, instruments_scores) ==
    <<listener, song, Str(score)>>
    \o [i \in 1..Len(ScoreColumns) |-> Str(instruments_scores[ScoreColumns[i]])]

\* the list add_result hands to csv_writer.writerow
ResultRow(listener, song, score, instruments_scores) ==
    <<song, listener, Str(score)>>
    \o [i \in 1..Len(ScoreColumns) |-> Str(instruments_scores[ScoreColumns[i]])]

\* open(file_name, "w") then one writerow: whatever the file held is gone
HeaderWritten(f) == <<Header>>

\* the file opened with "w" instead of "a": the row replaces what the file held
RowAppended_truncating(f, row) == <<row>>

\* open(file_name, "a") then one writerow
RowAppended(f, row) == Append(f, row)

(***************************************************************************)
(* run_calculate_aq: helpers                                               *)
(***************************************************************************)
TrackNames == [i \in 1..Len(songs) |-> songs[i].name]

\* songs[songs["Track Name"] == song]["Split"].tolist()[0]
SplitOf(song) ==
    LET i == CHOOSE i \in 1..Len(songs) :
                 /\ songs[i].name = song
                 /\ \A j \in 1..(i - 1) : songs[j].name # song
    IN  songs[i].split

\* split_dir
SplitDir(song) == IF SplitOf(song) = "test" THEN "test" ELSE "train"

\* f"left_{instrument}" / f"right_{instrument}"
ScoreKey(channel, instrument) == channel \o "_" \o instrument

CurSong == song_listener_pair[idx + 1][1]

CurListener == song_listener_pair[idx + 1][2]

CurInstrument == Instruments[instr_i]

\* Path(cfg.path.music_dir) / split_dir / song / f"{instrument}.wav"
ReferencePath(song, instrument) ==
    [kind |-> "reference", split |-> SplitDir(song), song |-> song,
     instrument |-> instrument]

\* enhanced_folder / f"{listener}_{song}_{channel}_{instrument}.wav"
EnhancedPath(listener, song, channel, instrument) ==
    [kind |-> "enhanced", listener |-> listener, song |-> song,
     channel |-> channel, instrument |-> instrument]

NoSignal == [rate |-> 0, data |-> [path |-> [kind |-> "none"], col |-> -1]]

\* what wavfile.read returns for the file at `path` carrying sample rate `rate`:
\* the samples are identified by the file they come from (col -1: all columns)
WavRead(path, rate) == [rate |-> rate, data |-> [path |-> path, col |-> -1]]

\* reference_signal[:, c]
Column(signal, c) == [signal.data EXCEPT !.col = c]

\* the assert without the right enhanced rate
RatesAgree_leftOnly(ref, left, right, fs) == ref = left /\ left = fs

\* the chained comparison of the assert
RatesAgree(ref, left, right, fs) == ref = left /\ left = right /\ right = fs

RECURSIVE SumOver(_, _)
SumOver(f, keys) ==
    IF keys = {} THEN 0
    ELSE LET k == CHOOSE k \in keys : TRUE IN f[k] + SumOver(f, keys \ {k})

\* the sum divided by the number of instruments instead of the number of scores
Mean_perInstrument(d) == [sum |-> SumOver(d, DOMAIN d), n |-> Len(Instruments)]

\* np.mean(list(scores.values())): the sum and the count it is divided by
Mean(d) == [sum |-> SumOver(d, DOMAIN d), n |-> Cardinality(DOMAIN d)]

EmptyDict == [k \in {} |-> 0]

Event(ev, instrument, channel, ok, arg) ==
    [ev |-> ev, k |-> idx, instrument |-> instrument, channel |-> channel,
     ok |-> ok, arg |-> arg]

NoError == [type |-> "none", at |-> "none"]

\* the exception caught and logged inside the pair loop, which goes on
Fail_caught(e) == pc' = "for_pair" /\ err' = [type |-> e, at |-> pc]

\* an exception nothing catches: it leaves run_calculate_aq from where it was raised
Fail(e) == pc' = "failed" /\ err' = [type |-> e, at |-> pc]

(***************************************************************************)
(* run_calculate_aq, step by step                                          *)
(***************************************************************************)
RunInit ==
    /\ pc = "write_header"
    /\ songs \in SeqsUpTo(CatalogRows, MaxSongs)
    /\ listeners \in KeyOrders(MaxListeners)
    /\ cfg \in [small_test : BOOLEAN, set_random_seed : BOOLEAN, fs : {ConfiguredFs}]
    /\ file \in PriorFiles
    /\ song_listener_pair = <<>>
    /\ idx = 0
    /\ instr_i = 1
    /\ scores = EmptyDict
    /\ combined_score = [sum |-> 0, n |-> 0]
    /\ reference_signal = NoSignal
    /\ left_enhanced_signal = NoSignal
    /\ right_enhanced_signal = NoSignal
    /\ np_seed = -1
    /\ err = NoError
    /\ log = <<>>
    /\ seeded = <<>>
    /\ written = <<>>

CallIdle == call_args = <<>> /\ call_result = <<>>

Init == RunInit /\ CallIdle

\* results_file.write_header()
WriteHeader ==
    /\ pc = "write_header"
    /\ file' = HeaderWritten(file)
    /\ pc' = "enumerate"
    /\ UNCHANGED <<songs, listeners, cfg, song_listener_pair, idx, instr_i, scores,
                   combined_score, reference_signal, left_enhanced_signal,
                   right_enhanced_signal, np_seed, err, log, histVars, callVars>>

\* write_header raises: open(.., "w") failed (file untouched), or it truncated the
\* file and the write or the close raised after n fields of the header had
\* reached the file
WriteHeaderFails ==
    /\ pc = "write_header"
    /\ \E n \in 0..Len(Header), opened \in BOOLEAN :
          file' = IF ~opened THEN file
                  ELSE IF n = 0 THEN <<>> ELSE <<SubSeq(Header, 1, n)>>
    /\ Fail("OSError")
    /\ UNCHANGED <<songs, listeners, cfg, song_listener_pair, idx, instr_i, scores,
                   combined_score, reference_signal, left_enhanced_signal,
                   right_enhanced_signal, np_seed, log, histVars, callVars>>

\* song_listener_pair = make_song_listener_list(...)
Enumerate ==
    /\ pc = "enumerate"
    /\ song_listener_pair' = make_song_listener_list(TrackNames, listeners, cfg.small_test)
    /\ idx' = 0
    /\ pc' = "for_pair"
    /\ UNCHANGED <<songs, listeners, cfg, file, instr_i, scores, combined_score,
                   reference_signal, left_enhanced_signal, right_enhanced_signal,
                   np_seed, err, log, histVars, callVars>>

\* the loop left one pair early: the last pair of the list is never taken
ForPair_stopsEarly ==
    /\ pc = "for_pair"
    /\ IF idx + 1 < Len(song_listener_pair)
       THEN pc' = "seeding" /\ log' = <<>>
       ELSE pc' = "done" /\ log' = log
    /\ UNCHANGED <<songs, listeners, cfg, file, song_listener_pair, idx, instr_i,
                   scores, combined_score, reference_signal, left_enhanced_signal,
                   right_enhanced_signal, np_seed, err, histVars, callVars>>

\* for song, listener in song_listener_pair: the next pair, or the end of the loop
ForPair ==
    /\ pc = "for_pair"
    /\ IF idx < Len(song_listener_pair)
       THEN pc' = "seeding" /\ log' = <<>>
       ELSE pc' = "done" /\ log' = log
    /\ UNCHANGED <<songs, listeners, cfg, file, song_listener_pair, idx, instr_i,
                   scores, combined_score, reference_signal, left_enhanced_signal,
                   right_enhanced_signal, np_seed, err, histVars, callVars>>

\* the dict `scores` kept from the pair before instead of starting empty
AfterSeeding_keepsScores ==
    /\ scores' = scores
    /\ instr_i' = 1
    /\ pc' = "load_reference"

\* where the driver goes once the seeding step is over: scores = {} and the
\* first instrument
AfterSeeding ==
    /\ scores' = EmptyDict
    /\ instr_i' = 1
    /\ pc' = "load_reference"

\* the seed set only the first time a song is met in the run
Seeding_oncePerSong ==
    /\ pc = "seeding"
    /\ cfg.set_random_seed
    /\ IF \E i \in 1..Len(seeded) : seeded[i].song = CurSong
       THEN UNCHANGED <<np_seed, log, seeded>>
       ELSE /\ np_seed' = song_md5(CurSong)
            /\ log' = Append(log, Event("seed", "", "", TRUE,
                                        [song |-> CurSong, seed |-> song_md5(CurSong)]))
            /\ seeded' = Append(seeded, [k |-> idx, song |-> CurSong,
                                         seed |-> song_md5(CurSong)])
    /\ AfterSeeding
    /\ UNCHANGED <<songs, listeners, cfg, file, song_listener_pair, idx,
                   combined_score, reference_signal, left_enhanced_signal,
                   right_enhanced_signal, err, written, callVars>>

\* if cfg.evaluate.set_random_seed: set_song_seed(song)
Seeding ==
    /\ pc = "seeding"
    /\ cfg.set_random_seed
    /\ np_seed' = song_md5(CurSong)
    /\ log' = Append(log, Event("seed", "", "", TRUE,
                                [song |-> CurSong, seed |-> song_md5(CurSong)]))
    /\ seeded' = Append(seeded, [k |-> idx, song |-> CurSong, seed |-> song_md5(CurSong)])
    /\ AfterSeeding
    /\ UNCHANGED <<songs, listeners, cfg, file, song_listener_pair, idx,
                   combined_score, reference_signal, left_enhanced_signal,
                   right_enhanced_signal, err, written, callVars>>

\* the seed reset to a fixed value when seeding is off
NoSeeding_resetsSeed ==
    /\ pc = "seeding"
    /\ ~cfg.set_random_seed
    /\ np_seed' = 0
    /\ AfterSeeding
    /\ UNCHANGED <<songs, listeners, cfg, file, song_listener_pair, idx,
                   combined_score, reference_signal, left_enhanced_signal,
                   right_enhanced_signal, err, log, histVars, callVars>>

\* set_random_seed is off: the seed is left alone
NoSeeding ==
    /\ pc = "seeding"
    /\ ~cfg.set_random_seed
    /\ AfterSeeding
    /\ UNCHANGED <<songs, listeners, cfg, file, song_listener_pair, idx,
                   combined_score, reference_signal, left_enhanced_signal,
                   right_enhanced_signal, np_seed, err, log, histVars, callVars>>

\* sample_rate_reference_signal, reference_signal = wavfile.read(<reference stem>)
LoadReference ==
    /\ pc = "load_reference"
    /\ \E rate \in Rates :
          /\ reference_signal' = WavRead(ReferencePath(CurSong, CurInstrument), rate)
          /\ log' = Append(log, Event("load", CurInstrument, "reference", TRUE,
                                      reference_signal'))
    /\ pc' = "load_left"
    /\ UNCHANGED <<songs, listeners, cfg, file, song_listener_pair, idx, instr_i,
                   scores, combined_score, left_enhanced_signal,
                   right_enhanced_signal, np_seed, err, histVars, callVars>>

\* sample_rate_left_enhanced_signal, left_enhanced_signal = wavfile.read(...)
LoadLeftEnhanced ==
    /\ pc = "load_left"
    /\ \E rate \in Rates :
          /\ left_enhanced_signal' =
                 WavRead(EnhancedPath(CurListener, CurSong, "left", CurInstrument), rate)
          /\ log' = Append(log, Event("load", CurInstrument, "left", TRUE,
                                      left_enhanced_signal'))
    /\ pc' = "load_right"
    /\ UNCHANGED <<songs, listeners, cfg, file, song_listener_pair, idx, instr_i,
                   scores, combined_score, reference_signal,
                   right_enhanced_signal, np_seed, err, histVars, callVars>>

\* sample_rate_right_enhanced_signal, right_enhanced_signal = wavfile.read(...)
LoadRightEnhanced ==
    /\ pc = "load_right"
    /\ \E rate \in Rates :
          /\ right_enhanced_signal' =
                 WavRead(EnhancedPath(CurListener, CurSong, "right", CurInstrument), rate)
          /\ log' = Append(log, Event("load", CurInstrument, "right", TRUE,
                                      right_enhanced_signal'))
    /\ pc' = "assert"
    /\ UNCHANGED <<songs, listeners, cfg, file, song_listener_pair, idx, instr_i,
                   scores, combined_score, reference_signal,
                   left_enhanced_signal, np_seed, err, histVars, callVars>>

LoadChannel(p) ==
    CASE p = "load_reference" -> "reference"
      [] p = "load_left" -> "left"
      [] OTHER -> "right"

\* wavfile.read raises (the file is missing or unreadable): the exception leaves
\* run_calculate_aq
LoadFails ==
    /\ pc \in {"load_reference", "load_left", "load_right"}
    /\ log' = Append(log, Event("load", CurInstrument, LoadChannel(pc), FALSE, NoSignal))
    /\ Fail("FileNotFoundError")
    /\ UNCHANGED <<songs, listeners, cfg, file, song_listener_pair, idx, instr_i,
                   scores, combined_score, reference_signal, left_enhanced_signal,
                   right_enhanced_signal, np_seed, histVars, callVars>>

\* assert (sample_rate_reference_signal == sample_rate_left_enhanced_signal
\*         == sample_rate_right_enhanced_signal == cfg.nalr.fs)
AssertRates ==
    /\ pc = "assert"
    /\ LET holds == RatesAgree(reference_signal.rate, left_enhanced_signal.rate,
                                right_enhanced_signal.rate, cfg.fs)
       IN  /\ log' = Append(log, Event("assert", CurInstrument, "", holds,
                                       <<reference_signal.rate, left_enhanced_signal.rate,
                                         right_enhanced_signal.rate, cfg.fs>>))
           /\ IF holds THEN pc' = "score_left" /\ err' = err
              ELSE Fail("AssertionError")
    /\ UNCHANGED <<songs, listeners, cfg, file, song_listener_pair, idx, instr_i,
                   scores, combined_score, reference_signal, left_enhanced_signal,
                   right_enhanced_signal, np_seed, histVars, callVars>>

\* the right channel scored against the listener's left loss levels
HaaqiArgs_leftLevels(channel) ==
    [enh_signal |-> IF channel = "left" THEN left_enhanced_signal.data
                    ELSE right_enhanced_signal.data,
     ref_signal |-> Column(reference_signal, IF channel = "left" THEN 0 ELSE 1),
     audiogram |-> listener_audiograms(CurListener).audiogram_levels_l,
     audiogram_frequencies |-> listener_audiograms(CurListener).audiogram_cfs,
     fs_signal |-> cfg.fs]

\* the arguments of the compute_haaqi call of `channel` for the current instrument
HaaqiArgs(channel) ==
    IF channel = "left"
    THEN [enh_signal |-> left_enhanced_signal.data,
          ref_signal |-> Column(reference_signal, 0),
          audiogram |-> listener_audiograms(CurListener).audiogram_levels_l,
          audiogram_frequencies |-> listener_audiograms(CurListener).audiogram_cfs,
          fs_signal |-> cfg.fs]
    ELSE [enh_signal |-> right_enhanced_signal.data,
          ref_signal |-> Column(reference_signal, 1),
          audiogram |-> listener_audiograms(CurListener).audiogram_levels_r,
          audiogram_frequencies |-> listener_audiograms(CurListener).audiogram_cfs,
          fs_signal |-> cfg.fs]

MetricCall(channel) ==
    LET a == HaaqiArgs(channel)
    IN  haaqi_call(a.enh_signal, a.ref_signal, a.audiogram, a.audiogram_frequencies,
                   a.fs_signal)

MetricScore(channel) ==
    LET a == HaaqiArgs(channel)
    IN  compute_haaqi(a.enh_signal, a.ref_signal, a.audiogram, a.audiogram_frequencies,
                      a.fs_signal)

\* scores[key] = value
DictSet(d, key, value) ==
    [k \in DOMAIN d \cup {key} |-> IF k = key THEN value ELSE d[k]]

\* scores[f"left_{instrument}"] = compute_haaqi(left_enhanced_signal, ...)
ScoreLeft ==
    /\ pc = "score_left"
    /\ scores' = DictSet(scores, ScoreKey("left", CurInstrument), MetricScore("left"))
    /\ log' = Append(log, Event("metric", CurInstrument, "left", TRUE, MetricCall("left")))
    /\ pc' = "score_right"
    /\ UNCHANGED <<songs, listeners, cfg, file, song_listener_pair, idx, instr_i,
                   combined_score, reference_signal, left_enhanced_signal,
                   right_enhanced_signal, np_seed, err, histVars, callVars>>

\* scores[f"right_{instrument}"] = compute_haaqi(right_enhanced_signal, ...), then
\* the next instrument or, after the last one, the combined score
ScoreRight ==
    /\ pc = "score_right"
    /\ scores' = DictSet(scores, ScoreKey("right", CurInstrument), MetricScore("right"))
    /\ log' = Append(log, Event("metric", CurInstrument, "right", TRUE, MetricCall("right")))
    /\ IF instr_i < Len(Instruments)
       THEN instr_i' = instr_i + 1 /\ pc' = "load_reference"
       ELSE instr_i' = instr_i /\ pc' = "aggregate"
    /\ UNCHANGED <<songs, listeners, cfg, file, song_listener_pair, idx,
                   combined_score, reference_signal, left_enhanced_signal,
                   right_enhanced_signal, np_seed, err, histVars, callVars>>

\* the metric's exception swallowed: a default score stands in and the driver goes on
MetricFails_swallowed ==
    /\ pc \in {"score_left", "score_right"}
    /\ LET channel == IF pc = "score_left" THEN "left" ELSE "right"
       IN  /\ log' = Append(log, Event("metric", CurInstrument, channel, FALSE,
                                       MetricCall(channel)))
           /\ scores' = DictSet(scores, ScoreKey(channel, CurInstrument), 0)
    /\ IF pc = "score_left" THEN pc' = "score_right" /\ instr_i' = instr_i
       ELSE IF instr_i < Len(Instruments)
            THEN instr_i' = instr_i + 1 /\ pc' = "load_reference"
            ELSE instr_i' = instr_i /\ pc' = "aggregate"
    /\ UNCHANGED <<songs, listeners, cfg, file, song_listener_pair, idx,
                   combined_score, reference_signal, left_enhanced_signal,
                   right_enhanced_signal, np_seed, err, histVars, callVars>>

\* haaqi_v1 raises inside compute_haaqi: nothing catches it
MetricFails ==
    /\ pc \in {"score_left", "score_right"}
    /\ LET channel == IF pc = "score_left" THEN "left" ELSE "right"
       IN  log' = Append(log, Event("metric", CurInstrument, channel, FALSE,
                                    MetricCall(channel)))
    /\ Fail("MetricError")
    /\ UNCHANGED <<songs, listeners, cfg, file, song_listener_pair, idx, instr_i,
                   scores, combined_score, reference_signal, left_enhanced_signal,
                   right_enhanced_signal, np_seed, histVars, callVars>>

\* combined_score = np.mean(list(scores.values()))
Aggregate ==
    /\ pc = "aggregate"
    /\ combined_score' = Mean(scores)
    /\ pc' = "add_result"
    /\ UNCHANGED <<songs, listeners, cfg, file, song_listener_pair, idx, instr_i,
                   scores, reference_signal, left_enhanced_signal,
                   right_enhanced_signal, np_seed, err, log, histVars, callVars>>

\* add_result reads all eight columns of instruments_scores (a missing one is a
\* KeyError before anything is written)
HasAllColumns(d) == \A i \in 1..Len(ScoreColumns) : ScoreColumns[i] \in DOMAIN d

\* results_file.add_result(listener, song, score=..., instruments_scores=scores)
AddResult ==
    /\ pc = "add_result"
    /\ HasAllColumns(scores)
    /\ LET row == ResultRow(CurListener, CurSong, combined_score, scores)
       IN  /\ file' = RowAppended(file, row)
           /\ log' = Append(log, Event("write", "", "", TRUE,
                                       [song |-> CurSong, listener |-> CurListener,
                                        keys |-> DOMAIN scores, row |-> row]))
           /\ written' = Append(written, [k |-> idx, song |-> CurSong,
                                          listener |-> CurListener, row |-> row])
    /\ idx' = idx + 1
    /\ pc' = "for_pair"
    /\ UNCHANGED <<songs, listeners, cfg, song_listener_pair, instr_i, scores,
                   combined_score, reference_signal, left_enhanced_signal,
                   right_enhanced_signal, np_seed, err, seeded, callVars>>

\* add_result raises while opening or writing: open(.., "a") failed (n = 0), or the
\* flush and close of the file at the end of the with block raised after n fields
\* of the row had reached the file (all of them when only the close failed)
AddResultFails ==
    /\ pc = "add_result"
    /\ HasAllColumns(scores)
    /\ LET row == ResultRow(CurListener, CurSong, combined_score, scores)
       IN  /\ \E n \in 0..Len(row) :
                  file' = IF n = 0 THEN file ELSE RowAppended(file, SubSeq(row, 1, n))
           /\ log' = Append(log, Event("write", "", "", FALSE,
                                       [song |-> CurSong, listener |-> CurListener,
                                        keys |-> DOMAIN scores, row |-> row]))
    /\ Fail("OSError")
    /\ UNCHANGED <<songs, listeners, cfg, song_listener_pair, idx, instr_i, scores,
                   combined_score, reference_signal, left_enhanced_signal,
                   right_enhanced_signal, np_seed, histVars, callVars>>

Next ==
    \/ WriteHeader
    \/ WriteHeaderFails
    \/ Enumerate
    \/ ForPair
    \/ Seeding
    \/ NoSeeding
    \/ LoadReference
    \/ LoadLeftEnhanced
    \/ LoadRightEnhanced
    \/ LoadFails
    \/ AssertRates
    \/ ScoreLeft
    \/ ScoreRight
    \/ MetricFails
    \/ Aggregate
    \/ AddResult
    \/ AddResultFails

Spec == Init /\ [][Next]_vars

(***************************************************************************)
(* SpecPairs: make_song_listener_list applied to bounded inputs.           *)
(* SpecHaaqi: compute_haaqi applied to bounded audiograms.                 *)
(***************************************************************************)
\* no run in progress: the run's variables keep one value
RunIdle ==
    /\ pc = "idle"
    /\ songs = <<>>
    /\ listeners = <<>>
    /\ cfg = [small_test |-> FALSE, set_random_seed |-> FALSE, fs |-> ConfiguredFs]
    /\ file = <<>>
    /\ song_listener_pair = <<>>
    /\ idx = 0
    /\ instr_i = 1
    /\ scores = EmptyDict
    /\ combined_score = [sum |-> 0, n |-> 0]
    /\ reference_signal = NoSignal
    /\ left_enhanced_signal = NoSignal
    /\ right_enhanced_signal = NoSignal
    /\ np_seed = -1
    /\ err = NoError
    /\ log = <<>>
    /\ seeded = <<>>
    /\ written = <<>>

NotReturned == [returned |-> FALSE, value |-> <<>>]

PairsInit ==
    /\ RunIdle
    /\ \E n \in 0..MaxListSongs, m \in 1..MaxListNames, keys \in KeyOrders(Len(ListenerPool)),
          small_test \in BOOLEAN :
          call_args = [songs |-> CyclicSongs(n, m), listeners |-> keys,
                       small_test |-> small_test]
    /\ call_result = NotReturned

\* one call of make_song_listener_list(songs, listeners, small_test)
CallMakeSongListenerList ==
    /\ pc = "idle"
    /\ ~call_result.returned
    /\ "small_test" \in DOMAIN call_args
    /\ call_result' =
           [returned |-> TRUE,
            value |-> make_song_listener_list(call_args.songs, call_args.listeners,
                                              call_args.small_test)]
    /\ UNCHANGED <<runVars, call_args>>

SpecPairs == PairsInit /\ [][CallMakeSongListenerList]_vars

\* the example audiogram: eight frequencies, eight distinct levels
ExampleCfs == <<125, 250, 500, 1000, 2000, 4000, 6000, 8000>>

ExampleLevels == <<1, 2, 3, 4, 5, 6, 7, 8>>

HaaqiInit ==
    /\ RunIdle
    /\ \/ \E fr \in SeqsUpTo(FreqPool, MaxCfs) :
             \E lv \in [1..Len(fr) -> LevelPool] :
                 call_args = [audiogram |-> lv, audiogram_frequencies |-> fr]
       \/ call_args = [audiogram |-> ExampleLevels, audiogram_frequencies |-> ExampleCfs]
       \/ \E l \in ListenerIds :
             call_args = [audiogram |-> listener_audiograms(l).audiogram_levels_l,
                          audiogram_frequencies |-> listener_audiograms(l).audiogram_cfs]
    /\ call_result = NotReturned

\* one call of compute_haaqi on the left channel of some signal: what it hands
\* to haaqi_v1
CallComputeHaaqi ==
    /\ pc = "idle"
    /\ ~call_result.returned
    /\ "audiogram" \in DOMAIN call_args
    /\ call_result' =
           [returned |-> TRUE,
            value |-> haaqi_call(
                          [path |-> EnhancedPath("L1", "song1", "left", "drums"), col |-> -1],
                          [path |-> [kind |-> "reference", split |-> "train", song |-> "song1",
                                     instrument |-> "drums"], col |-> 0],
                          call_args.audiogram, call_args.audiogram_frequencies,
                          cfg.fs)]
    /\ UNCHANGED <<runVars, call_args>>

SpecHaaqi == HaaqiInit /\ [][CallComputeHaaqi]_vars

(***************************************************************************)
(* Notions shared by the properties of a run                               *)
(***************************************************************************)
\* write_header has returned
HeaderReturned == pc \notin {"write_header", "idle"} /\ err.at # "write_header"

\* the rows of the add_result calls that returned, in call order
Rows(w) == [i \in 1..Len(w) |-> w[i].row]

\* the newest event of the current iteration. The log only grows within an
\* iteration, so what holds of the newest event in every reachable state holds
\* of every event when it happens.
Newest == log[Len(log)]

\* what a write that raised after n fields of `row` left in the file
Fragment(row, n) == IF n = 0 THEN <<>> ELSE <<SubSeq(row, 1, n)>>

Channels == {"left", "right"}

\* the eight keys left/right x drums/bass/other/vocals
ScoreKeySet == { ScoreKey(ch, Instruments[i]) : ch \in Channels, i \in 1..Len(Instruments) }

MetricEvents == { q \in DOMAIN log : log[q].ev = "metric" }

\* all eight metric calls of the current pair were made and returned
AllEightReturned ==
    /\ \A i \in 1..Len(Instruments), ch \in Channels :
          \E q \in MetricEvents :
              /\ log[q].ok /\ log[q].k = idx
              /\ log[q].instrument = Instruments[i] /\ log[q].channel = ch
    /\ \A q \in MetricEvents : log[q].ok
    /\ Cardinality(MetricEvents) = Cardinality(ScoreKeySet)

(***************************************************************************)
(* C1                                                                      *)
(***************************************************************************)
\* C1 as stated: at every point after write_header has returned, the file holds
\* the header followed by exactly the rows of the add_result calls that have
\* returned, in call order, and nothing else (no lost, partial or duplicated row).
C1_Original == HeaderReturned => file = <<Header>> \o Rows(written)

\* C1, amended: after write_header has returned the file holds the header
\* followed by one complete row for each add_result call that has returned, in
\* call order, and nothing else as long as no add_result call has raised; an
\* add_result call that raised may have left part or all of its own row after
\* those rows.
C1_HeaderPlusReturnedRows ==
    HeaderReturned =>
        /\ \A i \in 1..Len(written) : Len(written[i].row) = Len(Header)
        /\ IF err.at = "add_result"
           THEN \E n \in 0..Len(Header) :
                    file = <<Header>> \o Rows(written) \o Fragment(Newest.arg.row, n)
           ELSE file = <<Header>> \o Rows(written)

\* two add_result calls have returned and the file holds the header and two rows
C1_Witness == pc = "for_pair" /\ Len(written) = 2 /\ Len(file) = 3 /\ file[1] = Header

(***************************************************************************)
(* C2                                                                      *)
(***************************************************************************)
\* C2: the file gets a row (and add_result returns) only in a step taken when
\* all 8 metric calls of the current pair have returned successfully and the
\* record handed to add_result holds exactly the 8 keys left/right x
\* drums/bass/other/vocals; so no row is written for a pair that stopped part-way.
C2_RowOnlyAfterEightScores ==
    [][ ((file' # file /\ pc # "write_header") \/ written' # written)
        => (pc = "add_result" /\ AllEightReturned /\ DOMAIN scores = ScoreKeySet) ]_vars

\* one pair was written and the next one stopped part-way at a failing metric call
C2_Witness ==
    /\ pc = "failed" /\ err.type = "MetricError"
    /\ Len(written) = 1 /\ Len(file) = 2
    /\ Cardinality(MetricEvents) > 1

(***************************************************************************)
(* C3                                                                      *)
(***************************************************************************)
\* the four rates are not all equal
RatesDiffer(rates) == \E i, j \in 1..Len(rates) : rates[i] # rates[j]

\* the rates of the three loads before the assert at position q of the log,
\* and the configured rate
RatesBefore(q) ==
    <<log[q - 3].arg.rate, log[q - 2].arg.rate, log[q - 1].arg.rate, cfg.fs>>

\* the assert at position q of the log follows the three loads of its instrument
AssertAfterLoads(q) ==
    /\ q > 3
    /\ \A d \in 1..3 : /\ log[q - d].ev = "load" /\ log[q - d].ok
                       /\ log[q - d].instrument = log[q].instrument
                       /\ log[q - d].k = log[q].k
    /\ log[q - 3].channel = "reference"
    /\ log[q - 2].channel = "left"
    /\ log[q - 1].channel = "right"

\* C3: whenever the rates of the reference stem, the left and the right enhanced
\* file and the configured rate are not all equal, the assert raises
\* (AssertionError ends the run); a metric call of an instrument is made only
\* after the assert of that instrument passed on equal rates; and no row is
\* written for the pair.
C3_RateMismatchIsFatal ==
    (log # <<>>) =>
        /\ Newest.ev = "assert" =>
              /\ AssertAfterLoads(Len(log))
              /\ Newest.arg = RatesBefore(Len(log))
              /\ RatesDiffer(Newest.arg) <=> ~Newest.ok
              /\ ~Newest.ok => (pc = "failed" /\ err.type = "AssertionError")
        /\ Newest.ev = "metric" =>
              LET q == IF Newest.channel = "left" THEN Len(log) - 1 ELSE Len(log) - 2
              IN  /\ q > 0
                  /\ log[q].ev = "assert" /\ log[q].ok
                  /\ log[q].instrument = Newest.instrument
                  /\ AssertAfterLoads(q)
                  /\ ~RatesDiffer(RatesBefore(q))
        /\ Newest.ev = "write" =>
              \A q \in DOMAIN log :
                  /\ log[q].ev = "assert" => log[q].ok /\ ~RatesDiffer(log[q].arg)
                  /\ log[q].ev = "load" => log[q].ok /\ log[q].arg.rate = cfg.fs
        /\ err.type = "AssertionError" =>
              /\ \A i \in 1..Len(written) : written[i].k # idx
              /\ Len(file) = 1 + Len(written)
              /\ \A q \in MetricEvents : log[q].instrument # Newest.instrument

\* the left and right enhanced files of the second pair's second instrument
\* differ in rate (the reference stem has the configured rate): the run raised
C3_Witness ==
    /\ pc = "failed" /\ err.type = "AssertionError"
    /\ left_enhanced_signal.rate # right_enhanced_signal.rate
    /\ reference_signal.rate = cfg.fs
    /\ idx = 1 /\ instr_i = 2

(***************************************************************************)
(* C4                                                                      *)
(***************************************************************************)
\* the rows of the pairs before position idx, one per pair, in order
RowsOfEarlierPairs ==
    /\ Len(written) = idx
    /\ \A i \in 1..Len(written) : written[i].k = i - 1

\* C4 as stated: after a fatal error at pair k nothing more happens and the file
\* holds exactly the header plus the rows of pairs 0..k-1.
C4_Original ==
    (pc = "failed" /\ err.at # "write_header") =>
        /\ ~ENABLED Next
        /\ RowsOfEarlierPairs
        /\ file = <<Header>> \o Rows(written)

\* C4, amended: an exception always ends the run; after a fatal error at pair k
\* no step follows (the failing operation is the newest event), and the file
\* holds the header plus the rows of pairs 0..k-1, unchanged, and nothing else,
\* except that a failing add_result may have left part or all of pair k's row
\* after them.
C4_FatalErrorStopsRun ==
    /\ err.type # "none" <=> pc = "failed"
    /\ (pc = "failed" /\ err.at # "write_header") =>
          /\ ~ENABLED Next
          /\ log # <<>> /\ ~Newest.ok /\ Newest.k = idx
          /\ RowsOfEarlierPairs
          /\ IF err.at = "add_result"
             THEN \E n \in 0..Len(Header) :
                      file = <<Header>> \o Rows(written) \o Fragment(Newest.arg.row, n)
             ELSE file = <<Header>> \o Rows(written)

\* add_result of the second pair raised after part of its row reached the file
C4_Witness ==
    /\ pc = "failed" /\ err.at = "add_result"
    /\ idx = 1 /\ Len(written) = 1
    /\ Len(file) = 3 /\ Len(file[3]) < Len(Header)

(***************************************************************************)
(* C5                                                                      *)
(***************************************************************************)
\* the driver is inside the iteration of pair idx, past its seeding step
PastSeeding ==
    \/ pc \in {"load_reference", "load_left", "load_right", "assert", "score_left",
               "score_right", "aggregate", "add_result"}
    \/ pc = "failed" /\ err.at # "write_header"

\* C5 as stated: with set_random_seed on, the seed is set at most once for a
\* song in a run (read for a catalog whose track names are distinct, so that
\* "a song" is one catalog entry).
C5_Original ==
    (cfg.set_random_seed /\ IsInjective(TrackNames)) =>
        \A i, j \in 1..Len(seeded) : seeded[i].song = seeded[j].song => i = j

\* C5, amended: with set_random_seed on, the seed is set exactly once per
\* (song, listener) pair, to the seed of the pair's song, as the first event of
\* the pair's iteration, hence before the pair's first metric call, and not
\* again between the pair's channels or instruments; a song paired with several
\* listeners is seeded once for each of its pairs.
C5_SeedOncePerPair ==
    cfg.set_random_seed =>
        /\ Len(seeded) = idx + (IF PastSeeding THEN 1 ELSE 0)
        /\ \A i \in 1..Len(seeded) :
              /\ seeded[i].k = i - 1
              /\ seeded[i].song = song_listener_pair[i][1]
              /\ seeded[i].seed = song_md5(seeded[i].song)
        /\ log # <<>> =>
              /\ log[1].ev = "seed"
              /\ log[1].arg.song = song_listener_pair[log[1].k + 1][1]
              /\ \A q \in 2..Len(log) : log[q].ev # "seed"
        /\ (log # <<>> /\ Newest.ev = "metric") =>
              np_seed = song_md5(Newest.arg.processed.path.song)

\* the same song is met with a second listener: it has been seeded a second time
\* and a metric call of the second pair has been made
C5_Witness ==
    /\ cfg.set_random_seed /\ IsInjective(TrackNames)
    /\ Len(seeded) = 2 /\ seeded[1].song = seeded[2].song
    /\ song_listener_pair[1][2] # song_listener_pair[2][2]
    /\ log # <<>> /\ Newest.ev = "metric"

(***************************************************************************)
(* C6                                                                      *)
(***************************************************************************)
\* C6 as stated: no (song, listener) pair is written more than once in a run.
C6_Original ==
    \A i, j \in 1..Len(written) :
        (written[i].song = written[j].song /\ written[i].listener = written[j].listener)
            => i = j

\* C6, amended: every row written belongs to exactly one position of the
\* enumerated list (the i-th row is the row of position i-1 and carries that
\* position's song and listener), every event of an iteration belongs to the
\* position being processed, and no position is scored or written more than
\* once; a (song, listener) value is evaluated once per occurrence in the
\* enumeration, so more than once when the catalog repeats a track name.
C6_OneRowPerPosition ==
    /\ Len(written) <= Len(song_listener_pair)
    /\ \A i \in 1..Len(written) :
          /\ written[i].k = i - 1
          /\ <<written[i].song, written[i].listener>> = song_listener_pair[i]
          /\ written[i].row[1] = song_listener_pair[i][1]
          /\ written[i].row[2] = song_listener_pair[i][2]
    /\ Len(written) \in {idx, idx - 1} /\ (pc # "for_pair" \/ Len(written) = idx)
    /\ \A q \in DOMAIN log :
          /\ log[q].k = IF pc \in {"for_pair", "done"} THEN idx - 1 ELSE idx
          /\ (log[q].ev = "metric") =>
                /\ log[q].arg.processed.path.song = song_listener_pair[log[q].k + 1][1]
                /\ log[q].arg.processed.path.listener = song_listener_pair[log[q].k + 1][2]
                /\ \A r \in MetricEvents :
                      (log[r].instrument = log[q].instrument
                       /\ log[r].channel = log[q].channel) => r = q

\* the catalog lists the same track name twice: both rows of (song, listener)
\* were written
C6_Witness ==
    /\ Len(written) = 2
    /\ written[1].song = written[2].song
    /\ written[1].listener = written[2].listener
    /\ Len(file) = 3

(***************************************************************************)
(* C7, C8                                                                  *)
(***************************************************************************)
\* the full song-major enumeration, by position
FullEnumeration(ss, keys) ==
    [p \in 1..(Len(ss) * Len(keys)) |->
        <<ss[((p - 1) \div Len(keys)) + 1], keys[((p - 1) % Len(keys)) + 1]>>]

\* C7: with small_test false make_song_listener_list returns the Cartesian
\* product in song-major order, of length |songs| * |listeners|; an empty song
\* list or listener mapping gives the empty list.
C7_SongMajorProduct ==
    (call_result.returned /\ "small_test" \in DOMAIN call_args /\ ~call_args.small_test) =>
        LET ss == call_args.songs
            keys == call_args.listeners
            r == call_result.value
        IN  /\ Len(r) = Len(ss) * Len(keys)
            /\ r = FullEnumeration(ss, keys)
            /\ (ss = <<>> \/ keys = <<>>) => r = <<>>

\* songs [A, B] with listeners L1, L2
C7_Witness ==
    /\ call_result.returned
    /\ call_args = [songs |-> <<"song1", "song2">>, listeners |-> <<"L1", "L2">>,
                    small_test |-> FALSE]
    /\ call_result.value = << <<"song1", "L1">>, <<"song1", "L2">>,
                              <<"song2", "L1">>, <<"song2", "L2">> >>

\* C8: with small_test true make_song_listener_list returns exactly the
\* elements at 0-indexed positions 0, 15, 30, ... of the full song-major
\* enumeration, in that order.
C8_EveryFifteenth ==
    (call_result.returned /\ "small_test" \in DOMAIN call_args /\ call_args.small_test) =>
        LET full == FullEnumeration(call_args.songs, call_args.listeners)
            r == call_result.value
        IN  /\ Len(r) = (Len(full) + 14) \div 15
            /\ \A i \in 1..Len(r) : r[i] = full[15 * (i - 1) + 1]
            /\ full # <<>> => (r # <<>> /\ r[1] = full[1])

\* a full enumeration of 30 pairs: the elements at positions 0 and 15
C8_Witness ==
    /\ call_result.returned /\ "small_test" \in DOMAIN call_args /\ call_args.small_test
    /\ Len(call_args.songs) * Len(call_args.listeners) = 30
    /\ Len(call_result.value) = 2
    /\ call_result.value[2] = FullEnumeration(call_args.songs, call_args.listeners)[16]
    /\ call_result.value[2] # call_result.value[1]

(***************************************************************************)
(* C9                                                                      *)
(***************************************************************************)
\* the six canonical frequencies of the claim
CanonicalFrequencies == {250, 500, 1000, 2000, 4000, 6000}

\* the indices of the listener's frequencies that are canonical
KeptIndices(fr) == { i \in 1..Len(fr) : fr[i] \in CanonicalFrequencies }

\* the j-th smallest element of a set of indices
NthIndex(S, j) == CHOOSE i \in S : Cardinality({ x \in S : x < i }) = j - 1

\* C9: the hearing-loss sequence compute_haaqi hands to the metric consists of
\* exactly the levels whose frequency at the same index is canonical, in the
\* order of the listener's own frequency sequence.
C9_FilteredLevels ==
    (call_result.returned /\ "audiogram" \in DOMAIN call_args) =>
        LET fr == call_args.audiogram_frequencies
            hl == call_result.value.hearing_loss
        IN  /\ Len(hl) = Cardinality(KeptIndices(fr))
            /\ \A j \in 1..Len(hl) : hl[j] = call_args.audiogram[NthIndex(KeptIndices(fr), j)]

\* frequencies [125, 250, ..., 8000] with levels [a..h] gave [b, c, d, e, f, g]
C9_Witness ==
    /\ call_result.returned
    /\ call_args = [audiogram |-> <<1, 2, 3, 4, 5, 6, 7, 8>>,
                    audiogram_frequencies |-> <<125, 250, 500, 1000, 2000, 4000, 6000, 8000>>]
    /\ call_result.value.hearing_loss = <<2, 3, 4, 5, 6, 7>>

(***************************************************************************)
(* C10                                                                     *)
(***************************************************************************)
\* the listener's filtered subset holds one level for each canonical frequency
WellFormedSubset(l) ==
    \A f \in CanonicalFrequencies :
        Cardinality({ i \in 1..Len(listener_audiograms(l).audiogram_cfs) :
                        listener_audiograms(l).audiogram_cfs[i] = f }) = 1

\* C10 as stated: a malformed audiogram subset is a fatal validation error, so
\* it never reaches the metric (the run has aborted) and no row is written for
\* a pair whose listener has one.
C10_MalformedSubsetIsFatal ==
    /\ \A q \in MetricEvents :
          Len(log[q].arg.hearing_loss) = Cardinality(CanonicalFrequencies)
    /\ \A i \in 1..Len(written) : WellFormedSubset(written[i].listener)

(***************************************************************************)
(* SpecCsv: the text ResultsFile writes, and what reading it back yields   *)
(***************************************************************************)
\* most records appended in one round trip
MaxRecords == 2

\* the characters the csv dialect treats specially
Comma == ","

QuoteChar == "\""

CR == "\r"

LF == "\n"

SpecialChars == {Comma, QuoteChar, CR, LF}

\* a field as the sequence of its characters; a run of ordinary characters that
\* holds no special one (a plain name, a number in decimal text) is one element
Chars(s) ==
    CASE s = "a,b" -> <<"a", Comma, "b">>
      [] s = "q\"t" -> <<"q", QuoteChar, "t">>
      [] s = "two\nlines" -> <<"two", LF, "lines">>
      [] s = "\"open" -> <<QuoteChar, "open">>
      [] s = "" -> <<>>
      [] OTHER -> <<s>>

\* song identifiers of the records of a round trip
CsvSongs == {"song1", "a,b", "q\"t", "two\nlines", "\"open", ""}

\* the listeners of the records, each with the base of its eight scores
CsvListeners == { <<"L1", 0>>, <<"a,b", 10>> }

\* the position of a key in the order the driver fills `scores`
KeyNo(key) ==
    CHOOSE n \in 1..(2 * Len(Instruments)) :
        key = ScoreKey(IF n % 2 = 1 THEN "left" ELSE "right", Instruments[(n + 1) \div 2])

\* a scores dict with eight distinct values base+1 .. base+8
ScoresFrom(base) == [key \in ScoreKeySet |-> base + KeyNo(key)]

\* the records handed to add_result
CsvRecords ==
    { [listener |-> lb[1], song |-> s, score |-> Mean(ScoresFrom(lb[2])),
       instruments_scores |-> ScoresFrom(lb[2])] :
        lb \in CsvListeners, s \in CsvSongs }

\* quoting of QUOTE_MINIMAL: a field holding the delimiter, the quote character
\* or a line-terminator character goes between quotes
NeedsQuotes(field) == \E i \in 1..Len(field) : field[i] \in SpecialChars

\* doublequote: every quote character inside a quoted field is written twice
RECURSIVE Doubled(_)
Doubled(field) ==
    IF field = <<>> THEN <<>>
    ELSE (IF Head(field) = QuoteChar THEN <<QuoteChar, QuoteChar>> ELSE <<Head(field)>>)
         \o Doubled(Tail(field))

\* the quoting with the quote characters inside left single
CsvField_singleQuotes(field) ==
    IF NeedsQuotes(field) THEN <<QuoteChar>> \o field \o <<QuoteChar>> ELSE field

CsvField(field) ==
    IF NeedsQuotes(field) THEN <<QuoteChar>> \o Doubled(field) \o <<QuoteChar>> ELSE field

RECURSIVE JoinFields(_)
JoinFields(fields) ==
    IF fields = <<>> THEN <<>>
    ELSE IF Len(fields) = 1 THEN CsvField(Chars(fields[1]))
    ELSE CsvField(Chars(Head(fields))) \o <<Comma>> \o JoinFields(Tail(fields))

\* csv_writer.writerow(fields): the fields joined by the delimiter, then "\r\n"
csv_writerow(fields) == JoinFields(fields) \o <<CR, LF>>

\* write_header on the text of the file: open(.., "w") drops what it held
HeaderText(text) == csv_writerow(Header)

\* add_result on the text of the file: open(.., "a") keeps what it held
ResultText(text, r) ==
    text \o csv_writerow(ResultRow(r.listener, r.song, r.score, r.instruments_scores))

\* csv.reader over the text (excel dialect, the file opened with newline=""):
\* the reader's state machine, one character at a time.
\* The length of the line end that starts at position i: "\r\n", "\r" or "\n"
LineEnd(text, i) == IF text[i] = CR /\ i < Len(text) /\ text[i + 1] = LF THEN 2 ELSE 1

\* one field read from position i on: the field, the position after it and what
\* ended it (the delimiter, the end of the line or the end of the text)
RECURSIVE ParseField(_, _, _, _)
ParseField(text, i, state, field) ==
    IF i > Len(text) THEN [field |-> field, next |-> i, end |-> "eof"]
    ELSE LET c == text[i]
         IN  CASE state = "in_quoted_field" /\ c = QuoteChar ->
                    ParseField(text, i + 1, "quote_in_quoted_field", field)
               [] state = "in_quoted_field" /\ c # QuoteChar ->
                    ParseField(text, i + 1, "in_quoted_field", Append(field, c))
               [] state = "quote_in_quoted_field" /\ c = QuoteChar ->
                    ParseField(text, i + 1, "in_quoted_field", Append(field, c))
               [] state = "start_field" /\ c = QuoteChar ->
                    ParseField(text, i + 1, "in_quoted_field", field)
               [] state # "in_quoted_field" /\ c = Comma ->
                    [field |-> field, next |-> i + 1, end |-> "field"]
               [] state # "in_quoted_field" /\ c \in {CR, LF} ->
                    [field |-> field, next |-> i + LineEnd(text, i), end |-> "row"]
               [] OTHER ->
                    ParseField(text, i + 1, "in_field", Append(field, c))

\* one record read from position i on: its fields and the position after it
RECURSIVE ParseRow(_, _, _)
ParseRow(text, i, row) ==
    LET f == ParseField(text, i, "start_field", <<>>)
    IN  IF f.end = "field" THEN ParseRow(text, f.next, Append(row, f.field))
        ELSE [row |-> Append(row, f.field), next |-> f.next]

\* the records from position i on; an empty line is a record without fields
RECURSIVE ParseRows(_, _, _)
ParseRows(text, i, rows) ==
    IF i > Len(text) THEN rows
    ELSE IF text[i] \in {CR, LF}
         THEN ParseRows(text, i + LineEnd(text, i), Append(rows, <<>>))
         ELSE LET r == ParseRow(text, i, <<>>)
              IN  ParseRows(text, r.next, Append(rows, r.row))

csv_reader(text) == ParseRows(text, 1, <<>>)

\* what the file may hold before write_header: nothing, an older report, or
\* text that ends inside a quoted field
CsvPriorTexts ==
    { <<>>,
      csv_writerow(Header) \o csv_writerow(<<"old", "row">>),
      <<QuoteChar, "cut">> }

CsvInit ==
    /\ RunIdle
    /\ \E prior \in CsvPriorTexts, rs \in SeqsUpTo(CsvRecords, MaxRecords) :
          call_args = [prior |-> prior, records |-> rs]
    /\ call_result = [returned |-> FALSE,
                      value |-> [step |-> "write_header", text |-> call_args.prior,
                                 appended |-> 0, rows |-> <<>>]]

\* results_file.write_header()
CsvWriteHeader ==
    /\ pc = "idle" /\ "records" \in DOMAIN call_args
    /\ call_result.value.step = "write_header"
    /\ call_result' = [call_result EXCEPT !.value.step = "add_result",
                                          !.value.text = HeaderText(@)]
    /\ UNCHANGED <<runVars, call_args>>

\* results_file.add_result(...) for the next record
CsvAddResult ==
    /\ pc = "idle" /\ "records" \in DOMAIN call_args
    /\ call_result.value.step = "add_result"
    /\ call_result.value.appended < Len(call_args.records)
    /\ call_result' =
           [call_result EXCEPT
               !.value.appended = @ + 1,
               !.value.text = ResultText(@, call_args.records[call_result.value.appended + 1])]
    /\ UNCHANGED <<runVars, call_args>>

\* the file read back with csv.reader once every record was appended
CsvReadBack ==
    /\ pc = "idle" /\ "records" \in DOMAIN call_args
    /\ call_result.value.step = "add_result"
    /\ call_result.value.appended = Len(call_args.records)
    /\ call_result' = [call_result EXCEPT !.returned = TRUE,
                                          !.value.step = "read",
                                          !.value.rows = csv_reader(call_result.value.text)]
    /\ UNCHANGED <<runVars, call_args>>

CsvNext == CsvWriteHeader \/ CsvAddResult \/ CsvReadBack

SpecCsv == CsvInit /\ [][CsvNext]_vars

(***************************************************************************)
(* C11                                                                     *)
(***************************************************************************)
\* the field of record r that belongs under the header column `column`
FieldUnder(r, column) ==
    CASE column = "song" -> Chars(r.song)
      [] column = "listener" -> Chars(r.listener)
      [] column = "score" -> <<ToString(r.score)>>
      [] OTHER -> <<ToString(r.instruments_scores[column])>>

\* C11: write_header, then add_result for records r1..rn, then reading the
\* file back yields the 11-column header followed by exactly n rows in append
\* order, each with 11 fields, the field under each header column being that
\* record's song, listener, combined score and the score stored under the key
\* of the column's name; whatever the file held before write_header.
C11_RoundTrip ==
    (call_result.returned /\ "records" \in DOMAIN call_args) =>
        LET rows == call_result.value.rows
            rs == call_args.records
            columns == <<"song", "listener", "score", "left_bass", "right_bass",
                         "left_drums", "right_drums", "left_other", "right_other",
                         "left_vocals", "right_vocals">>
        IN  /\ Len(rows) = 1 + Len(rs)
            /\ rows[1] = [c \in 1..11 |-> <<columns[c]>>]
            /\ \A i \in 1..Len(rs) :
                  /\ Len(rows[i + 1]) = 11
                  /\ \A c \in 1..11 : rows[i + 1][c] = FieldUnder(rs[i], columns[c])

\* two records were appended over an older report, the first with a song name
\* that holds a quote character and the second with one that holds a line
\* break, and the file was read back as three rows
C11_Witness ==
    /\ call_result.returned /\ "records" \in DOMAIN call_args
    /\ call_args.prior # <<>>
    /\ Len(call_args.records) = 2
    /\ call_args.records[1].song = "q\"t"
    /\ call_args.records[2].song = "two\nlines"
    /\ call_args.records[1].instruments_scores # call_args.records[2].instruments_scores
    /\ Len(call_result.value.rows) = 3
    /\ call_result.value.rows[3][1] = <<"two", LF, "lines">>

(***************************************************************************)
(* C12                                                                     *)
(***************************************************************************)
\* the score the metric call at position q of the log returned
EventScore(q) ==
    LET c == log[q].arg
    IN  haaqi_v1(c.reference, c.reference_freq, c.processed, c.processed_freq,
                 c.hearing_loss, c.equalisation)

\* the sum of the scores of the metric calls of the current iteration
SumOfEventScores == SumOver([q \in MetricEvents |-> EventScore(q)], MetricEvents)

\* the rational sum/n equals the decimal whole.tenths
IsDecimal(m, whole, tenths) == 10 * m.sum = (10 * whole + tenths) * m.n

\* the mean of the scores 1..8
MeanOfOneToEight == Mean(ScoresFrom(0))

\* C12: the combined score handed to add_result and written in the pair's row
\* is the sum of exactly the 8 per-channel scores of that pair's metric calls
\* divided by 8, every score with the same weight; the scores 1..8 give 4.5.
C12_CombinedIsMean ==
    /\ IsDecimal(MeanOfOneToEight, 4, 5)
    /\ pc = "add_result" =>
          /\ Cardinality(MetricEvents) = 8
          /\ combined_score = [sum |-> SumOfEventScores, n |-> 8]
          /\ combined_score.sum =
                 scores["left_drums"] + scores["right_drums"] + scores["left_bass"]
                 + scores["right_bass"] + scores["left_other"] + scores["right_other"]
                 + scores["left_vocals"] + scores["right_vocals"]
    /\ (log # <<>> /\ Newest.ev = "write") =>
          /\ Cardinality(MetricEvents) = 8
          /\ combined_score = [sum |-> SumOfEventScores, n |-> 8]
          /\ Newest.arg.row[3] = ToString(combined_score)

\* the row of the second pair was written with the mean of its eight scores,
\* which differ from one another
C12_Witness ==
    /\ Len(written) = 2 /\ log # <<>> /\ Newest.ev = "write" /\ Newest.ok
    /\ combined_score = [sum |-> SumOfEventScores, n |-> 8]
    /\ written[2].row[3] = ToString(combined_score)
    /\ Cardinality({ EventScore(q) : q \in MetricEvents }) = 8
    /\ written[1].row[3] # written[2].row[3]

(***************************************************************************)
(* C13                                                                     *)
(***************************************************************************)
\* int(md5(name).hexdigest(), 16) % 10**8 of the catalog's track names
KnownSeed(song) == IF song = "song1" THEN 65544297 ELSE 65425770

\* C13: the seed set for a song depends on the song identifier only: every
\* seeding of the same identifier in a run sets the same integer, whatever the
\* listener, the position in the enumeration and the seedings before it; the
\* seed lies in [0, 10^8).
C13_SeedDependsOnSongOnly ==
    /\ \A i \in 1..Len(seeded) :
          /\ seeded[i].seed >= 0 /\ seeded[i].seed < 100000000
          /\ seeded[i].seed = KnownSeed(seeded[i].song)
          /\ \A j \in 1..Len(seeded) :
                seeded[i].song = seeded[j].song => seeded[i].seed = seeded[j].seed
    /\ seeded # <<>> => np_seed = seeded[Len(seeded)].seed

\* the same song was seeded for two listeners, then another song: the first two
\* seeds are equal and the third differs
C13_Witness ==
    /\ Len(seeded) = 3
    /\ seeded[1].song = seeded[2].song /\ seeded[1].seed = seeded[2].seed
    /\ song_listener_pair[1][2] # song_listener_pair[2][2]
    /\ seeded[3].song # seeded[1].song /\ seeded[3].seed # seeded[1].seed
    /\ np_seed = seeded[3].seed

(***************************************************************************)
(* C14                                                                     *)
(***************************************************************************)
\* what the driver does for one instrument, in order
InstrumentSteps(instrument) ==
    << <<"load", instrument, "reference">>, <<"load", instrument, "left">>,
       <<"load", instrument, "right">>, <<"assert", instrument, "">>,
       <<"metric", instrument, "left">>, <<"metric", instrument, "right">> >>

\* what the driver does for one pair, in order
PairSteps(seeding) ==
    (IF seeding THEN << <<"seed", "", "">> >> ELSE <<>>)
    \o InstrumentSteps("drums") \o InstrumentSteps("bass")
    \o InstrumentSteps("other") \o InstrumentSteps("vocals")
    \o << <<"write", "", "">> >>

\* what the driver has done so far in the current iteration
LogSteps == [q \in 1..Len(log) |-> <<log[q].ev, log[q].instrument, log[q].channel>>]

\* C14 as stated: within an instrument each channel is loaded and then scored
\* before the next channel is taken up, so when the left channel is scored the
\* right enhanced file of that instrument has not been loaded yet.
C14_Original ==
    (log # <<>> /\ Newest.ev = "metric" /\ Newest.channel = "left") =>
        ~\E q \in DOMAIN log :
            /\ log[q].ev = "load" /\ log[q].channel = "right"
            /\ log[q].instrument = Newest.instrument

\* C14, amended: for each pair the driver seeds (when seeding is on), then for
\* each instrument in the order drums, bass, other, vocals loads the reference
\* stem, the left and the right enhanced file, validates the rates and only
\* then scores the left and the right channel, then aggregates, then writes;
\* every step but the newest succeeded; a channel's signals are loaded before
\* that channel is scored, and aggregating and writing happen only after the
\* right channel of vocals was scored.
C14_StateOrder ==
    LET steps == PairSteps(cfg.set_random_seed)
    IN  /\ Len(log) <= Len(steps)
        /\ LogSteps = SubSeq(steps, 1, Len(log))
        /\ \A q \in 1..(Len(log) - 1) : log[q].ok
        /\ pc \in {"aggregate", "add_result"} =>
              /\ Len(log) = Len(steps) - 1
              /\ Newest.ok /\ Newest.instrument = "vocals" /\ Newest.channel = "right"
        /\ pc = "add_result" => combined_score = Mean(scores)
        /\ (log # <<>> /\ Newest.ev = "write") =>
              /\ Len(log) = Len(steps)
              /\ Newest.arg.row[3] = ToString(combined_score)
        /\ pc = "seeding" => log = <<>>

\* the left channel of the second instrument (bass) has just been scored, with
\* the right enhanced file of bass loaded before it
C14_Witness ==
    /\ pc = "score_right" /\ instr_i = 2
    /\ Newest.ev = "metric" /\ Newest.channel = "left" /\ Newest.instrument = "bass"
    /\ log[Len(log) - 2].ev = "load" /\ log[Len(log) - 2].channel = "right"
    /\ log[Len(log) - 2].instrument = "bass"

(***************************************************************************)
(* C15                                                                     *)
(***************************************************************************)
\* the runs started on a catalog that lists every track once
FairInit == Init /\ IsInjective(TrackNames)

\* the run as the interpreter executes it: single-threaded, every call blocks
\* until it returns or raises, so a step that can be taken is taken
SpecFair == FairInit /\ [][Next]_vars /\ WF_vars(Next)

\* run_calculate_aq has returned or an exception has left it
Terminated == pc \in {"done", "failed"}

\* the file holds the header and one row per enumerated pair, in enumeration order
OneRowPerPairInOrder ==
    /\ Len(written) = Len(song_listener_pair)
    /\ file = <<Header>> \o Rows(written)
    /\ \A i \in 1..Len(song_listener_pair) :
          /\ written[i].k = i - 1
          /\ file[i + 1][1] = song_listener_pair[i][1]
          /\ file[i + 1][2] = song_listener_pair[i][2]

\* every event of the iteration of pair k happens with the rows of the pairs
\* 0..k-1 returned and in the file
RowsBeforeNextPair ==
    (log # <<>> /\ Newest.ev # "write") =>
        /\ Newest.k = Len(written)
        /\ \A i \in 1..Len(written) : written[i].k = i - 1 /\ file[i + 1] = written[i].row

\* C15: the run terminates; when it ends without a fatal error the file holds
\* exactly one data row per enumerated pair, in enumeration order; and pairs
\* are processed one after another, the row of pair i being written before
\* any seeding, load, validation or metric call of pair i+1.
C15_TerminatesWithAllRows ==
    /\ <>Terminated
    /\ [](pc = "done" => (err = NoError /\ OneRowPerPairInOrder))
    /\ []RowsBeforeNextPair

\* the run ended without an error after four pairs: the file holds five rows
C15_Witness ==
    /\ pc = "done" /\ err = NoError
    /\ Len(song_listener_pair) = 4 /\ Len(file) = 5
    /\ file[2][2] # file[3][2] /\ file[2][1] # file[4][1]

(***************************************************************************)
(* C16                                                                     *)
(***************************************************************************)
\* the metric calls of the current iteration that returned
ReturnedMetricEvents == { q \in MetricEvents : log[q].ok }

\* the key under which the score of the metric call at position q is stored
EventKey(q) == ScoreKey(log[q].channel, log[q].instrument)

\* C16: inside the iteration of a pair the dict `scores` holds exactly the
\* scores of the metric calls made so far in that iteration, each made for
\* the pair's own song and listener, and nothing from an earlier pair; so the
\* 8 per-channel scores of the row written (and the combined score, C12) all
\* come from metric calls of that pair's iteration.
C16_NoCarryOver ==
    /\ PastSeeding =>
          /\ DOMAIN scores = { EventKey(q) : q \in ReturnedMetricEvents }
          /\ \A q \in ReturnedMetricEvents :
                /\ scores[EventKey(q)] = EventScore(q)
                /\ log[q].k = idx
                /\ log[q].arg.processed.path.song = CurSong
                /\ log[q].arg.processed.path.listener = CurListener
                /\ log[q].arg.reference.path.song = CurSong
    /\ (log # <<>> /\ Newest.ev = "write") =>
          /\ <<Newest.arg.row[1], Newest.arg.row[2]>> = <<Newest.arg.song, Newest.arg.listener>>
          /\ \A c \in 1..Len(ScoreColumns) :
                \E q \in ReturnedMetricEvents :
                    /\ EventKey(q) = ScoreColumns[c]
                    /\ Newest.arg.row[3 + c] = ToString(EventScore(q))
                    /\ log[q].arg.processed.path.song = Newest.arg.song
                    /\ log[q].arg.processed.path.listener = Newest.arg.listener

\* the second pair, of another listener, is in its second instrument: `scores`
\* holds the two scores of its first instrument only, and they differ from the
\* ones in the row of the first pair
C16_Witness ==
    /\ idx = 1 /\ Len(written) = 1 /\ pc = "load_reference" /\ instr_i = 2
    /\ written[1].listener # CurListener
    /\ DOMAIN scores = {"left_drums", "right_drums"}
    /\ ToString(scores["left_drums"]) # written[1].row[6]

(***************************************************************************)
(* C17                                                                     *)
(***************************************************************************)
\* the metric call at position q of the log was made for ear `channel` of
\* song s and listener l: the enhanced file of that ear, that ear's column of
\* the instrument's reference stem, that ear's loss levels filtered with the
\* listener's frequency list, and the configured rate for both signals
CallOfEar(q, channel, s, l) ==
    LET c == log[q].arg
        a == listener_audiograms(l)
        levels == IF channel = "left" THEN a.audiogram_levels_l ELSE a.audiogram_levels_r
    IN  /\ c.processed.path = [kind |-> "enhanced", listener |-> l, song |-> s,
                               channel |-> channel, instrument |-> log[q].instrument]
        /\ c.reference.path.kind = "reference"
        /\ c.reference.path.song = s
        /\ c.reference.path.instrument = log[q].instrument
        /\ c.reference.col = (IF channel = "left" THEN 0 ELSE 1)
        /\ c.hearing_loss = audiogram_adjusted(levels, a.audiogram_cfs)
        /\ c.reference_freq = cfg.fs /\ c.processed_freq = cfg.fs

\* C17: every metric call, when it is made, pairs matching ears: the call
\* whose score is stored under left_<instrument> gets (and the score stored is
\* the one computed from) the left enhanced file, the left channel of
\* that instrument's reference stem and the listener's left loss levels, the
\* call for right_<instrument> the right ones, both filtered with the
\* listener's one frequency list; and a completed pair has made exactly 8
\* metric calls, one per instrument and ear.
C17_MatchingEars ==
    /\ (log # <<>> /\ Newest.ev = "metric") =>
          /\ Newest.channel \in {"left", "right"}
          /\ CallOfEar(Len(log), Newest.channel, song_listener_pair[Newest.k + 1][1],
                       song_listener_pair[Newest.k + 1][2])
          /\ Newest.ok =>
                scores[Newest.channel \o "_" \o Newest.instrument] = EventScore(Len(log))
    /\ (log # <<>> /\ Newest.ev = "write") =>
          /\ Cardinality(MetricEvents) = 8
          /\ Cardinality({ <<log[q].instrument, log[q].channel>> : q \in MetricEvents }) = 8

\* a pair of listener L1 was completed: eight calls, the left ones with the
\* left levels [10..35] and the right ones with the right levels [50..75]
C17_Witness ==
    /\ log # <<>> /\ Newest.ev = "write" /\ Newest.ok /\ Newest.arg.listener = "L1"
    /\ Cardinality(MetricEvents) = 8
    /\ \E q \in MetricEvents :
          /\ log[q].channel = "left" /\ log[q].arg.reference.col = 0
          /\ log[q].arg.hearing_loss = <<10, 15, 20, 25, 30, 35>>
    /\ \E q \in MetricEvents :
          /\ log[q].channel = "right" /\ log[q].arg.reference.col = 1
          /\ log[q].arg.hearing_loss = <<50, 55, 60, 65, 70, 75>>

(***************************************************************************)
(* C18                                                                     *)
(***************************************************************************)
IsNotSeedStep(step) == step[1] # "seed"

\* the loads, validations, metric calls and write of the current iteration
StepsBesideSeeding == SelectSeq(LogSteps, IsNotSeedStep)

\* the scores of song s for listener l, computed from the catalogs and the
\* configured rate alone
ScoresOfPair(s, l) ==
    [key \in ScoreKeySet |->
        LET channel == IF KeyNo(key) % 2 = 1 THEN "left" ELSE "right"
            instrument == Instruments[(KeyNo(key) + 1) \div 2]
            a == listener_audiograms(l)
        IN  haaqi_v1([path |-> ReferencePath(s, instrument),
                      col |-> IF channel = "left" THEN 0 ELSE 1],
                     cfg.fs,
                     [path |-> EnhancedPath(l, s, channel, instrument), col |-> -1],
                     cfg.fs,
                     audiogram_adjusted(IF channel = "left" THEN a.audiogram_levels_l
                                        ELSE a.audiogram_levels_r, a.audiogram_cfs),
                     1)]

\* the text of a mean as it stands in a row: the count, then the sum
MeanText(m) == ToString([n |-> m.n, sum |-> m.sum])

\* the row of song s for listener l, computed from the catalogs and the
\* configured rate alone
RowOfPair(s, l) ==
    LET sc == ScoresOfPair(s, l)
    IN  <<s, l, MeanText(Mean(sc))>>
        \o [c \in 1..Len(ScoreColumns) |-> ToString(sc[ScoreColumns[c]])]

\* C18: with set_random_seed off the driver never touches the process-wide
\* seed; and whether it is on or off, the enumerated pair list, the sequence of
\* loads, validations and metric calls of every iteration, the arguments and
\* the score of every metric call when it is made and every row when it is
\* written are what the catalogs, the files read and the other options
\* determine: none of them depends on the seeding option.
C18_SeedingIsOptional ==
    /\ ~cfg.set_random_seed =>
          /\ np_seed = -1 /\ seeded = <<>>
          /\ \A q \in DOMAIN log : log[q].ev # "seed"
    /\ cfg.set_random_seed => \A q \in 2..Len(log) : log[q].ev # "seed"
    /\ (pc \notin {"write_header", "enumerate"} /\ err.at # "write_header") =>
          song_listener_pair =
              make_song_listener_list(TrackNames, listeners, cfg.small_test)
    /\ StepsBesideSeeding = SubSeq(PairSteps(FALSE), 1, Len(StepsBesideSeeding))
    /\ (log # <<>> /\ Newest.ev = "metric") =>
          LET s == song_listener_pair[Newest.k + 1][1]
              l == song_listener_pair[Newest.k + 1][2]
          IN  /\ CallOfEar(Len(log), Newest.channel, s, l)
              /\ EventScore(Len(log)) = ScoresOfPair(s, l)[EventKey(Len(log))]
    /\ (log # <<>> /\ Newest.ev = "write") =>
          /\ Newest.arg.row = RowOfPair(song_listener_pair[Newest.k + 1][1],
                                        song_listener_pair[Newest.k + 1][2])
          /\ Newest.ok => written[Len(written)].row = Newest.arg.row

\* a run with seeding off wrote the rows of two pairs and ended: the seed is
\* still the one the process started with
C18_Witness ==
    /\ ~cfg.set_random_seed /\ pc = "done"
    /\ Len(written) = 2 /\ Len(file) = 3
    /\ np_seed = -1

====
